---- MODULE Spec2Model ----
(***************************************************************************)
(* A model of two of the repository's examples:                            *)
(*   - deck-of-cards/deck-of-card.py : Card, Deck (construction, count,    *)
(*     _deal, deal_card, deal_hand, shuffle);                              *)
(*   - inheritance.py : Person / Student and the age property.             *)
(* One Deck object and one Person object are modelled.  Every method call  *)
(* is one action; what the call returned or raised is kept in `result`.    *)
(***************************************************************************)
EXTENDS Integers, Sequences, FiniteSets, TLC

VARIABLES
  cards,        \* Deck.cards, the list of remaining Card objects
  lastOp,       \* the method of the last call: "new", "count", "shuffle", ...
  lastArg,      \* the hand_size of the last deal_hand call (0 otherwise)
  result,       \* what the last call returned or raised
  streakOn,     \* history: only deal_card calls dealt since the last shuffle
  dealt,        \* history: the cards those deal_card calls returned, in order
  calls,        \* history: how many deal_card calls those were (saturating)
  cls,          \* the class of the person object: "Person" or "Student"
  occupation,   \* Person.occupation
  _age,         \* Person._age
  lastAssigned  \* history: the last integer given as age (constructor or setter)

deckVars == <<cards, lastOp, lastArg, result, streakOn, dealt, calls>>
personVars == <<cls, occupation, _age, lastAssigned>>
vars == <<cards, lastOp, lastArg, result, streakOn, dealt, calls,
          cls, occupation, _age, lastAssigned>>

----------------------------------------------------------------------------
(* Bounds *)

\* hand sizes -MaxHand..MaxHand are tried, besides the sizes around a full deck
MaxHand == 3
\* shuffle may cut the deck at 0..MaxShift (and may also reverse it)
MaxShift == 2
\* ages -MaxAge..MaxAge are assigned
MaxAge == 30

----------------------------------------------------------------------------
(* Python built-ins *)

\* min([a, b])
min(a, b) == IF b < a THEN b ELSE a

\* max([a, b])
max(a, b) == IF b > a THEN b ELSE a

\* how a slice bound i is resolved against a list of length len
SliceIndex(i, len) ==
  IF i < 0 THEN max(i + len, 0) ELSE min(i, len)

\* s[start:]
SliceFrom(s, start) == SubSeq(s, SliceIndex(start, Len(s)) + 1, Len(s))

\* s[:stop]
SliceTo(s, stop) == SubSeq(s, 1, SliceIndex(stop, Len(s)))

\* the elements of a list, as a set
Elems(s) == {s[i] : i \in 1..Len(s)}

\* the deck cut at k: s[k:] + s[:k]
Rotate(s, k) == [i \in 1..Len(s) |-> s[((i - 1 + k) % Len(s)) + 1]]

\* s[::-1]
Reverse(s) == [i \in 1..Len(s) |-> s[Len(s) + 1 - i]]

\* The orders random.shuffle(s) may leave s in.  random.shuffle may produce
\* any permutation; the model draws from the cuts of s and their reversals.
ShuffleOutcomes(s) ==
  IF Len(s) = 0 THEN {s}
  ELSE {Rotate(s, k) : k \in 0..MaxShift}
         \cup {Reverse(Rotate(s, k)) : k \in 0..MaxShift}

----------------------------------------------------------------------------
(* deck-of-card.py *)

Card(value, suit) == [value |-> value, suit |-> suit]

suits == <<"Hearts", "Diamonds", "Clubs", "Spades">>

values_typo ==
  <<"A", "2", "3", "4", "5", "6", "7", "8", "9", "10", "J", "J", "K">>

values ==
  <<"A", "2", "3", "4", "5", "6", "7", "8", "9", "10", "J", "Q", "K">>

\* the literal of Deck.shuffle's guard
FullDeck == 52

EmptyDeckMsg == "All cards have been dealt"
NotFullMsg == "Only full decks can be shuffled"
IndexErrorMsg == "list index out of range"

\* [Card(value, suit) for value in values for suit in suits]
NewCardsValueMajor ==
  [i \in 1..(Len(suits) * Len(values)) |->
     Card(values[((i - 1) \div Len(suits)) + 1],
          suits[((i - 1) % Len(suits)) + 1])]

\* [Card(value, suit) for suit in suits for value in values]
NewCards ==
  [i \in 1..(Len(suits) * Len(values)) |->
     Card(values[((i - 1) % Len(values)) + 1],
          suits[((i - 1) \div Len(values)) + 1])]

\* the shapes of `result`
NoResult == [kind |-> "none", msg |-> "", cards |-> <<>>, n |-> 0]
Raise(m) == [kind |-> "raise", msg |-> m, cards |-> <<>>, n |-> 0]
RetInt(k) == [kind |-> "int", msg |-> "", cards |-> <<>>, n |-> k]
RetCard(c) == [kind |-> "card", msg |-> "", cards |-> <<c>>, n |-> 0]
RetList(cs) == [kind |-> "list", msg |-> "", cards |-> cs, n |-> 0]
RetSelf == [kind |-> "self", msg |-> "", cards |-> <<>>, n |-> 0]

\* Deck.count
count(cs) == Len(cs)

\* _deal without the emptiness check
_deal_unchecked(cs, num) ==
  LET actual == min(count(cs), num)
  IN  [raised |-> "", ret |-> SliceFrom(cs, -actual),
       cards |-> SliceTo(cs, -actual)]

\* _deal that returns the cards but leaves them in the deck
_deal_keep(cs, num) ==
  LET actual == min(count(cs), num)
  IN  IF count(cs) = 0
      THEN [raised |-> EmptyDeckMsg, ret |-> <<>>, cards |-> cs]
      ELSE [raised |-> "", ret |-> SliceFrom(cs, -actual), cards |-> cs]

\* Deck._deal(num) on a deck whose cards are cs: what it raises or returns,
\* and the deck's cards afterwards
_deal(cs, num) ==
  LET actual == min(count(cs), num)
  IN  IF count(cs) = 0
      THEN [raised |-> EmptyDeckMsg, ret |-> <<>>, cards |-> cs]
      ELSE [raised |-> "", ret |-> SliceFrom(cs, -actual),
            cards |-> SliceTo(cs, -actual)]

\* the hand sizes tried
HandSizes ==
  (-MaxHand..MaxHand)
    \cup {-(FullDeck + 1), -FullDeck, -(FullDeck - 1), 5,
          FullDeck - 1, FullDeck, FullDeck + 1, 100}

SaturatedCalls == FullDeck + 1

\* d = Deck()
Init ==
  /\ cards = NewCards
  /\ lastOp = "new"
  /\ lastArg = 0
  /\ result = NoResult
  /\ streakOn = FALSE
  /\ dealt = <<>>
  /\ calls = 0
  /\ cls = "Student"
  /\ occupation = "Student"
  /\ _age = max(14, 0)
  /\ lastAssigned = 14

\* d.count()
Count ==
  /\ lastOp' = "count"
  /\ lastArg' = 0
  /\ result' = RetInt(count(cards))
  /\ UNCHANGED <<cards, streakOn, dealt, calls>>
  /\ UNCHANGED personVars

\* d.deal_card()
DealCard ==
  LET r == _deal(cards, 1)
  IN  /\ lastOp' = "deal_card"
      /\ lastArg' = 0
      /\ cards' = r.cards
      /\ result' = IF r.raised # "" THEN Raise(r.raised)
                   ELSE IF Len(r.ret) = 0 THEN Raise(IndexErrorMsg)
                   ELSE RetCard(r.ret[1])
      /\ streakOn' = streakOn
      /\ dealt' = IF streakOn /\ result'.kind = "card"
                  THEN Append(dealt, r.ret[1]) ELSE dealt
      /\ calls' = IF streakOn THEN min(calls + 1, SaturatedCalls) ELSE calls
      /\ UNCHANGED personVars

\* d.deal_hand(hand_size)
DealHand ==
  \E hand_size \in HandSizes :
    LET r == _deal(cards, hand_size)
    IN  /\ lastOp' = "deal_hand"
        /\ lastArg' = hand_size
        /\ cards' = r.cards
        /\ result' = IF r.raised # "" THEN Raise(r.raised) ELSE RetList(r.ret)
        /\ streakOn' = FALSE
        /\ dealt' = <<>>
        /\ calls' = 0
        /\ UNCHANGED personVars

\* shuffle without the guard
ShuffleUnguarded ==
  /\ lastOp' = "shuffle"
  /\ lastArg' = 0
  /\ \E order \in ShuffleOutcomes(cards) : cards' = order
  /\ result' = RetSelf
  /\ streakOn' = TRUE
  /\ dealt' = <<>>
  /\ calls' = 0
  /\ UNCHANGED personVars

\* shuffle that refills a deck that is not full instead of raising
ShuffleRefill ==
  /\ lastOp' = "shuffle"
  /\ lastArg' = 0
  /\ \E order \in ShuffleOutcomes(IF count(cards) < FullDeck
                                  THEN NewCards ELSE cards) : cards' = order
  /\ result' = RetSelf
  /\ streakOn' = TRUE
  /\ dealt' = <<>>
  /\ calls' = 0
  /\ UNCHANGED personVars

\* shuffle that shuffles a slice and keeps it: self.cards = shuffled(cards[1:])
ShuffleSlice ==
  /\ lastOp' = "shuffle"
  /\ lastArg' = 0
  /\ IF count(cards) < FullDeck
     THEN /\ result' = Raise(NotFullMsg)
          /\ UNCHANGED <<cards, streakOn, dealt, calls>>
     ELSE /\ \E order \in ShuffleOutcomes(SliceFrom(cards, 1)) : cards' = order
          /\ result' = RetSelf
          /\ streakOn' = TRUE
          /\ dealt' = <<>>
          /\ calls' = 0
  /\ UNCHANGED personVars

\* d.shuffle()
Shuffle ==
  /\ lastOp' = "shuffle"
  /\ lastArg' = 0
  /\ IF count(cards) < FullDeck
     THEN /\ result' = Raise(NotFullMsg)
          /\ UNCHANGED <<cards, streakOn, dealt, calls>>
     ELSE /\ \E order \in ShuffleOutcomes(cards) : cards' = order
          /\ result' = RetSelf
          /\ streakOn' = TRUE
          /\ dealt' = <<>>
          /\ calls' = 0
  /\ UNCHANGED personVars

Next == Count \/ DealCard \/ DealHand \/ Shuffle

Spec == Init /\ [][Next]_vars

----------------------------------------------------------------------------
(* inheritance.py *)

\* the ages given to the constructors and to the age setter
Ages == -MaxAge..MaxAge

\* the occupations given to Person's constructor
Occupations == {"Teacher", "Student"}

\* Person.__init__(first, last, age, occupation): the fields it sets
Person__init__(age, occ) ==
  [cls |-> "Person", _age |-> max(age, 0), occupation |-> occ]

\* Student.__init__(first, last, age, grade): super().__init__ with
\* occupation = 'Student'
Student__init__(age) ==
  [Person__init__(age, "Student") EXCEPT !.cls = "Student"]

\* an age setter that stores what it is given
age_setter_unclamped(new_age) == new_age

\* the age setter: the value it stores in _age
age_setter(new_age) == max(new_age, 0)

\* Person(...) or Student(...), next to a deck nobody has touched
PersonInit ==
  /\ cards = NewCards
  /\ lastOp = "new"
  /\ lastArg = 0
  /\ result = NoResult
  /\ streakOn = FALSE
  /\ dealt = <<>>
  /\ calls = 0
  /\ \E age \in Ages :
       \E p \in {Person__init__(age, occ) : occ \in Occupations}
                 \cup {Student__init__(age)} :
         /\ cls = p.cls
         /\ occupation = p.occupation
         /\ _age = p._age
         /\ lastAssigned = age

\* p.age
GetAge ==
  /\ lastOp' = "age"
  /\ lastArg' = 0
  /\ result' = RetInt(_age)
  /\ UNCHANGED <<cards, streakOn, dealt, calls>>
  /\ UNCHANGED personVars

\* p.age = new_age
SetAge ==
  \E new_age \in Ages :
    /\ lastOp' = "age="
    /\ lastArg' = 0
    /\ result' = NoResult
    /\ _age' = age_setter(new_age)
    /\ lastAssigned' = new_age
    /\ UNCHANGED <<cards, streakOn, dealt, calls, cls, occupation>>

PersonNext == GetAge \/ SetAge

PersonSpec == PersonInit /\ [][PersonNext]_vars

----------------------------------------------------------------------------
(* Properties *)

\* the 13 ranks and the 4 suits
Ranks == {"A", "2", "3", "4", "5", "6", "7", "8", "9", "10", "J", "Q", "K"}
SuitNames == {"Hearts", "Diamonds", "Clubs", "Spades"}
AllCards == {[value |-> v, suit |-> s] : v \in Ranks, s \in SuitNames}

\* how often c occurs in the list s
Occurrences(s, c) == Cardinality({i \in 1..Len(s) : s[i] = c})

NoDuplicates(s) == \A i, j \in 1..Len(s) : i # j => s[i] # s[j]

\* the last m elements of s, and s without them
LastOf(s, m) == SubSeq(s, Len(s) - m + 1, Len(s))
WithoutLast(s, m) == SubSeq(s, 1, Len(s) - m)

\* C1: for a non-empty deck of count_before cards and every n >= 0,
\* deal_hand(n) returns exactly min(n, count_before) cards and leaves
\* count_before - min(n, count_before) cards in the deck.
C1DealSize ==
  [][(lastOp' = "deal_hand" /\ Len(cards) > 0 /\ lastArg' >= 0)
       => /\ result'.kind = "list"
          /\ Len(result'.cards) = min(lastArg', Len(cards))
          /\ Len(cards') = Len(cards) - min(lastArg', Len(cards))]_vars

\* C2: on an empty deck every deal_card() and every deal_hand(n) raises
\* ValueError("All cards have been dealt") and leaves the deck empty.
C2EmptyDealFails ==
  [][(Len(cards) = 0 /\ lastOp' \in {"deal_card", "deal_hand"})
       => /\ result' = Raise(EmptyDeckMsg)
          /\ cards' = cards]_vars

C2Witness ==
  /\ lastOp = "deal_hand"
  /\ lastArg = 100
  /\ Len(cards) = 0
  /\ result = Raise(EmptyDeckMsg)

\* C3: with fewer than 52 cards, shuffle() raises
\* ValueError("Only full decks can be shuffled") and the cards and their
\* order are what they were before the call.
C3PartialShuffleFails ==
  [][(Len(cards) < 52 /\ lastOp' = "shuffle")
       => /\ result' = Raise(NotFullMsg)
          /\ cards' = cards]_vars

C3Witness ==
  /\ lastOp = "shuffle"
  /\ result = Raise(NotFullMsg)
  /\ Len(cards) = 46

\* C4: shuffle() on a deck of 52 cards returns the same Deck and leaves the
\* deck with the same 52 (rank, suit) pairs, each exactly once.
C4ShufflePreservesCards ==
  [][(Len(cards) = 52 /\ lastOp' = "shuffle")
       => /\ result' = RetSelf
          /\ Len(cards') = 52
          /\ \A c \in AllCards :
               Occurrences(cards', c) = 1 /\ Occurrences(cards, c) = 1]_vars

C4Witness ==
  /\ lastOp = "shuffle"
  /\ result = RetSelf
  /\ Len(cards) = 52
  /\ cards # NewCards

\* C5: a freshly constructed Deck holds 52 cards, exactly the 13 x 4
\* (rank, suit) pairs, each once, in one fixed order (suit after suit as
\* listed, and within a suit rank after rank as listed).
C5FreshDeck ==
  lastOp = "new" =>
    /\ count(cards) = 52
    /\ Elems(cards) = AllCards
    /\ NoDuplicates(cards)
    /\ \A s \in 1..4 : \A v \in 1..13 :
         cards[13 * (s - 1) + v] =
           [value |-> <<"A", "2", "3", "4", "5", "6", "7", "8", "9", "10",
                        "J", "Q", "K">>[v],
            suit |-> <<"Hearts", "Diamonds", "Clubs", "Spades">>[s]]

C5Witness ==
  /\ lastOp = "new"
  /\ Len(cards) = 52
  /\ cards[1] = [value |-> "A", suit |-> "Hearts"]
  /\ cards[52] = [value |-> "K", suit |-> "Spades"]

\* C6: the deck never holds more than 52 cards and never holds two cards
\* with the same (rank, suit) pair.
C6DeckInvariant ==
  /\ Len(cards) <= 52
  /\ NoDuplicates(cards)

C6Witness ==
  /\ lastOp = "deal_hand"
  /\ lastArg = -2
  /\ Len(cards) = 2
  /\ cards # SubSeq(NewCards, 1, 2)

\* C7: after a shuffle, the first 52 deal_card() calls each return a card,
\* the 52 cards are pairwise distinct and are exactly the 52 cards of the
\* deck, the deck is then empty, and every further deal_card() raises
\* ValueError("All cards have been dealt").
C7DealWholeDeck ==
  streakOn =>
    /\ NoDuplicates(dealt)
    /\ Elems(dealt) \cap Elems(cards) = {}
    /\ calls <= 52 => (Len(dealt) = calls /\ Len(cards) = 52 - calls)
    /\ calls >= 52 => (Elems(dealt) = AllCards /\ Len(dealt) = 52
                         /\ cards = <<>>)
    /\ (lastOp = "deal_card" /\ calls <= 52)
         => (calls >= 1 /\ result = RetCard(dealt[calls]))
    /\ (lastOp = "deal_card" /\ calls > 52) => result = Raise(EmptyDeckMsg)

C7Witness ==
  /\ streakOn
  /\ calls = 53
  /\ lastOp = "deal_card"
  /\ result = Raise(EmptyDeckMsg)
  /\ Len(dealt) = 52
  /\ dealt[1] # NewCards[52]

\* C8: deal_hand(n), n >= 0, on a non-empty deck returns the last
\* min(n, count_before) cards of the deck in their order, leaves the deck
\* with exactly those cards cut off its end, and no returned card is still
\* in the deck.
C8DealFromEnd ==
  [][(lastOp' = "deal_hand" /\ Len(cards) > 0 /\ lastArg' >= 0)
       => /\ result'.cards = LastOf(cards, min(lastArg', Len(cards)))
          /\ cards' = WithoutLast(cards, min(lastArg', Len(cards)))
          /\ Elems(result'.cards) \cap Elems(cards') = {}]_vars

\* C9: no call of shuffle, deal_card, deal_hand or count makes the deck
\* larger, and the cards in the deck after a call are among those before.
C9ShrinkOnly ==
  [][/\ Len(cards') <= Len(cards)
     /\ Elems(cards') \subseteq Elems(cards)]_vars

C9Witness ==
  /\ lastOp = "deal_card"
  /\ Len(cards) = 40
  /\ ~streakOn

\* C10: the age read from a Person or a Student is max(a, 0), where a is the
\* last integer given as the age (to the constructor or to the setter); it
\* is never negative, and no assignment raises.
C10AgeClamped ==
  /\ _age = (IF lastAssigned > 0 THEN lastAssigned ELSE 0)
  /\ _age >= 0
  /\ result.kind # "raise"
  /\ lastOp = "age" => result = RetInt(IF lastAssigned > 0
                                        THEN lastAssigned ELSE 0)

C10Witness ==
  /\ lastOp = "age"
  /\ lastAssigned = -7
  /\ cls = "Student"
  /\ result = RetInt(0)

====
